---- MODULE Spec2Model ----
(***************************************************************************)
(* SyncStream: a leader and its members play the same tracks in lockstep   *)
(* over UDP.  The model follows src/src/leader.rs, src/src/member.rs,      *)
(* src/src/utils.rs and src/src/player.rs thread by thread.                *)
(*                                                                         *)
(* Datagram payloads are sequences of one-character strings, so that       *)
(* formatting and parsing are computed and not assumed.  A mutex is held   *)
(* from the step that locks it to the step in which its guard goes out of  *)
(* scope; a lock that is taken and dropped inside one statement never      *)
(* shows as held.                                                          *)
(***************************************************************************)
EXTENDS Integers, Sequences, FiniteSets, TLC

VARIABLES
    alive,          \* node -> the process is still running
    pc,             \* thread -> position in its code
    lock,           \* mutex -> the thread holding it, "none" or "poisoned"
    now,            \* true time in ms (what the NTP source reports)
    skew,           \* node -> system clock minus true time
    net,            \* datagrams in flight: [src, dst, msg]
    out,            \* datagrams the last step handed to send_to
    members,        \* leader: HashSet of member addresses
    ping_thread_should_terminate,
    broadcast_id,   \* leader ping thread: local counter
    todo,           \* thread -> addresses its running `for` loop has still to visit
    tracks,         \* node -> the Vec<Track> of names it plays
    current_track_index,
    should_reset,
    sink,           \* node -> [paused, pos, cur]: the rodio Sink
    local,          \* thread -> its local variables, see NoLocal
    last_received_id,
    leader_addr,    \* member: Option<SocketAddr>, "none" for None
    recvCount,      \* history: address -> datagrams the ping loop drained from it
    doneCount,      \* history: address -> send_to calls of `Done broadcasting` to it
    maxSeen,        \* history: the largest ping id the member has parsed, -1 for none
    ackCount        \* history: send_to calls of ACK the member has made

discoveryVars == <<members, ping_thread_should_terminate, broadcast_id, recvCount, doneCount>>
playbackVars == <<tracks, current_track_index, should_reset, sink>>
memberVars == <<last_received_id, leader_addr, maxSeen, ackCount>>

vars == <<alive, pc, lock, now, skew, net, out, todo, local,
          discoveryVars, playbackVars, memberVars>>

----------------------------------------------------------------------------
(* Bounds *)

\* pings the leader broadcasts before its counter stops the model
MaxPings == 1
\* steps of the clock before time stops in the model
MaxTicks == 2
\* the history counters stop counting here
MaxCount == 2
\* largest ping id other hosts put on the member's socket
MaxId == 2

----------------------------------------------------------------------------
(* Program constants *)

\* utils.rs: `current_time_ms + 1000`
LeadMs == 1000

\* the top of the u64 range of times, reduced to the largest integer the
\* model checker computes with
U64Top == 2147483647

\* granularity of time, in ms: half the lead
TickMs == LeadMs \div 2
\* length of every track, in ms: one step of the clock
TrackMs == TickMs

----------------------------------------------------------------------------
(* Addresses, nodes, threads, mutexes *)

LeaderAddr == "L"
MemberAddr == "M"
OtherAddr == "X"
BroadcastAddr == "BCAST"

Peers == {MemberAddr, OtherAddr}

Nodes == {"L", "M"}

LeaderThreads == {"l_main", "l_ping", "l_listener", "l_watchdog", "l_progress"}
MemberThreads == {"m_main", "m_input", "m_watchdog", "m_progress"}
Threads == LeaderThreads \cup MemberThreads

NodeOf(thr) == IF thr \in LeaderThreads THEN "L" ELSE "M"

Running(thr) == alive[NodeOf(thr)]

\* "members" and "flag" are the leader's, "leader_addr" the member's; the
\* sink, index and reset mutexes exist once per node
MembersMutex == <<"L", "members">>
LeaderAddrMutex == <<"M", "leader_addr">>

Mutexes == {MembersMutex, <<"L", "flag">>, LeaderAddrMutex} \cup
           {<<n, m>> : n \in Nodes, m \in {"sink", "index", "reset"}}

HeldBy(thr) == {m \in Mutexes : lock[m] = thr}

----------------------------------------------------------------------------
(* Text *)

PING == <<"P", "I", "N", "G">>
ACK == <<"A", "C", "K">>
DoneBroadcasting ==
    <<"D", "o", "n", "e", " ", "b", "r", "o", "a", "d", "c", "a", "s", "t", "i", "n", "g">>
TracksPrefix == <<"t", "r", "a", "c", "k", "s", ":">>
Garbage == <<"g", "a", "r", "b", "a", "g", "e">>
NotANumber == <<"n", "o", "t", "a", "n", "u", "m", "b", "e", "r">>

Digits == <<"0", "1", "2", "3", "4", "5", "6", "7", "8", "9">>

Whitespace == {" ", "\n", "\t", "\r"}

RECURSIVE ToDec(_)
\* format!("{}", n) for an unsigned integer
ToDec(n) == IF n < 10 THEN <<Digits[n + 1]>>
            ELSE ToDec(n \div 10) \o <<Digits[(n % 10) + 1]>>

DigitValue(c) == CHOOSE i \in 0..9 : Digits[i + 1] = c

IsDigit(c) == \E i \in 1..10 : Digits[i] = c

RECURSIVE DecValue(_)
DecValue(s) == IF s = <<>> THEN 0
               ELSE 10 * DecValue(SubSeq(s, 1, Len(s) - 1)) + DigitValue(s[Len(s)])

\* a faulty parse: text that is no number counts as zero
ParseU64OrZero(s) ==
    IF s # <<>> /\ \A i \in 1..Len(s) : IsDigit(s[i]) THEN DecValue(s) ELSE 0

\* str::parse::<u64>: an optional '+' and then digits only; -1 stands for Err
ParseU64(s) ==
    LET body == IF s # <<>> /\ s[1] = "+" THEN Tail(s) ELSE s
    IN  IF body # <<>> /\ \A i \in 1..Len(body) : IsDigit(body[i])
        THEN DecValue(body)
        ELSE -1

RECURSIVE TrimStart(_)
TrimStart(s) == IF s # <<>> /\ s[1] \in Whitespace THEN TrimStart(Tail(s)) ELSE s

RECURSIVE TrimEnd(_)
TrimEnd(s) == IF s # <<>> /\ s[Len(s)] \in Whitespace
              THEN TrimEnd(SubSeq(s, 1, Len(s) - 1)) ELSE s

\* str::trim
Trim(s) == TrimEnd(TrimStart(s))

\* str::starts_with
StartsWith(s, p) == Len(s) >= Len(p) /\ SubSeq(s, 1, Len(p)) = p

RECURSIVE Split(_, _)
\* str::split(sep).collect(): always at least one piece
Split(s, sep) ==
    IF \E i \in 1..Len(s) : s[i] = sep
    THEN LET i == CHOOSE k \in 1..Len(s) :
                     s[k] = sep /\ \A j \in 1..(k - 1) : s[j] # sep
         IN  <<SubSeq(s, 1, i - 1)>> \o Split(SubSeq(s, i + 1, Len(s)), sep)
    ELSE <<s>>

RECURSIVE Join(_, _)
\* [String]::join(sep)
Join(names, sep) ==
    IF names = <<>> THEN <<>>
    ELSE IF Len(names) = 1 THEN names[1]
    ELSE names[1] \o <<sep>> \o Join(Tail(names), sep)

\* format!("PING,{}", broadcast_id)
PingMessage(id) == PING \o <<",">> \o ToDec(id)

\* format!("tracks:{}", track_names)
TracksMessage(names) == TracksPrefix \o Join(names, ",")

\* format!("{} : {}", command, global_start_time)
CommandMessage(command, global_start_time) ==
    command \o <<" ", ":", " ">> \o ToDec(global_start_time)

\* a faulty extract_timestamp: the piece is parsed with its blanks
extract_timestamp_untrimmed(input) ==
    LET parts == Split(input, ":")
    IN  IF Len(parts) >= 2 THEN ParseU64(parts[2]) ELSE -1

\* utils.rs extract_timestamp: `input.split(':').nth(1)`, the piece between
\* the first ':' and the next one (or the end), trimmed and parsed
extract_timestamp(input) ==
    LET parts == Split(input, ":")
    IN  IF Len(parts) >= 2 THEN ParseU64(Trim(parts[2])) ELSE -1

\* utils.rs extract_mode: the piece before the first ':', trimmed and parsed
extract_mode(input) == ParseU64(Trim(Split(input, ":")[1]))

SeqRange(s) == {s[i] : i \in 1..Len(s)}

RECURSIVE Filter(_, _)
\* tracks.into_iter().filter(|t| selected.contains(&t.name)).collect()
Filter(list, selected) ==
    IF list = <<>> THEN <<>>
    ELSE IF list[1] \in selected THEN <<list[1]>> \o Filter(Tail(list), selected)
    ELSE Filter(Tail(list), selected)

\* member.rs:53-54: the pieces of the second piece of `message.split(':')`,
\* split at ','; without a ':' the index is out of bounds (see MemberTracks)
SelectedTracks(message) == Split(Split(message, ":")[2], ",")

\* the .mp3 files of the media directory of every node, sorted by name
Media == << <<"a">>, <<"b">> >>

----------------------------------------------------------------------------
(* Network *)

Dgram(src, dst, msg) == [src |-> src, dst |-> dst, msg |-> msg]

\* What other hosts may put on the leader's socket at any time
LeaderEnvPayloads ==
    {ACK, <<"p">>, <<"n">>, <<"r">>, <<"s">>, Garbage, PingMessage(1),
     <<":">>, TracksPrefix, PING \o <<",">> \o NotANumber}

\* The instants a command sent to the member may name
TargetTimes == {LeadMs}

\* What other hosts may put on the member's socket at any time
MemberEnvPayloads ==
    {PingMessage(i) : i \in 0..MaxId} \cup
    {PING \o <<",">> \o NotANumber, DoneBroadcasting, Garbage, <<":">>, TracksPrefix,
     TracksMessage(Media), TracksMessage(<<Media[1]>>)} \cup
    {CommandMessage(c, t) : c \in {<<"0">>, <<"2">>, <<"3">>, <<"4">>, <<"7">>},
                            t \in TargetTimes} \cup
    {CommandMessage(<<"0">>, t) \o <<":", "x">> : t \in TargetTimes}

\* the hosts that are not processes of the model: what a running process
\* sends is what its code sends
OtherHosts == {a \in {LeaderAddr, MemberAddr, OtherAddr} :
                  a \in Nodes => ~alive[a]}

EnvDatagrams(addr) ==
    IF addr = LeaderAddr
    THEN {Dgram(s, LeaderAddr, m) : s \in Peers \cap OtherHosts, m \in LeaderEnvPayloads}
    ELSE {Dgram(s, MemberAddr, m) : s \in {LeaderAddr, OtherAddr} \cap OtherHosts,
                                    m \in MemberEnvPayloads}

\* a datagram is carried to a running process; one for a host without a
\* socket is dropped
Carried(ds) ==
    {d \in ds : \E n \in Nodes :
                   alive[n] /\ (d.dst = n \/ (d.dst = BroadcastAddr /\ n = MemberAddr))}

\* Datagrams a recv_from on addr's socket can return now: UDP delivers in any
\* order, and what is never picked is lost
Deliverable(addr) ==
    {d \in net : d.dst = addr \/ (d.dst = BroadcastAddr /\ addr = MemberAddr)}
        \cup EnvDatagrams(addr)

----------------------------------------------------------------------------
(* Clock: utils.rs get_time_ms_ntp with the system-clock fallback *)

ClockSources == {"ntp", "system"}

\* the value a node's clock source shows at true time t
ClockAt(n, source, t) == IF source = "ntp" THEN t ELSE t + skew[n]

\* a faulty broadcast_start_time: the current time, without the lead
broadcast_start_time_no_lead(n, source) == ClockAt(n, source, now)

\* utils.rs broadcast_start_time
broadcast_start_time(n, source) == ClockAt(n, source, now) + LeadMs

\* a faulty get_offset, its comparison turned round: the time since the target
get_offset_flipped(n, source, target_time_ms) ==
    LET current_time_ms == ClockAt(n, source, now)
    IN  IF current_time_ms > target_time_ms
        THEN current_time_ms - target_time_ms
        ELSE 0

\* a faulty get_offset, the subtraction without its test: negative after the target
get_offset_unclamped(n, source, target_time_ms) ==
    target_time_ms - ClockAt(n, source, now)

\* utils.rs get_offset: target minus current time, zero when the target has passed
get_offset(n, source, target_time_ms) ==
    LET current_time_ms == ClockAt(n, source, now)
    IN  IF current_time_ms < target_time_ms
        THEN target_time_ms - current_time_ms
        ELSE 0

----------------------------------------------------------------------------
(* The audio sink (rodio::Sink), position and queue *)

NewSink == [paused |-> TRUE, pos |-> 0, cur |-> 0]

\* a faulty toggle: the sink is set playing whatever it was doing
SinkPlay(s) == [s EXCEPT !.paused = FALSE]

\* Sink::play / Sink::pause as synchronized_action "p" calls them
SinkToggle(s) == [s EXCEPT !.paused = ~s.paused]

\* a faulty skip: the whole queue is dropped
SinkSkipToEnd(s, len) == [s EXCEPT !.cur = len, !.pos = 0]

\* Sink::skip_one: drops the source being played, if there is one
SinkSkipOne(s, len) == IF s.cur < len THEN [s EXCEPT !.cur = s.cur + 1, !.pos = 0] ELSE s

\* Sink::try_seek(0): rewinds the source being played, if there is one
SinkSeekStart(s, len) == IF s.cur < len THEN [s EXCEPT !.pos = 0] ELSE s

Min(a, b) == IF a < b THEN a ELSE b

\* time passes: the clocks move and every playing sink moves with them
Tick ==
    /\ now + TickMs <= MaxTicks * TickMs
    /\ now' = now + TickMs
    /\ sink' = [n \in Nodes |->
                  IF alive[n] /\ ~sink[n].paused /\ sink[n].cur < Len(tracks[n])
                  THEN [sink[n] EXCEPT !.pos = Min(sink[n].pos + TickMs, TrackMs)]
                  ELSE sink[n]]
    /\ out' = <<>>
    /\ UNCHANGED <<alive, pc, lock, skew, net, todo, local, discoveryVars,
                   tracks, current_track_index, should_reset, memberVars>>

\* the sink reaches the end of a source and starts the next one of its queue
SinkAdvance(n) ==
    /\ alive[n] /\ ~sink[n].paused
    /\ sink[n].cur < Len(tracks[n]) /\ sink[n].pos >= TrackMs
    /\ sink' = [sink EXCEPT ![n] = [@ EXCEPT !.cur = @ + 1, !.pos = 0]]
    /\ out' = <<>>
    /\ UNCHANGED <<alive, pc, lock, now, skew, net, todo, local, discoveryVars,
                   tracks, current_track_index, should_reset, memberVars>>

----------------------------------------------------------------------------
(* Threads that end *)

MainThreads == {"l_main", "m_main"}

\* a panic: the main thread takes the process with it; any other thread dies
\* alone and poisons the mutexes whose guards it holds (holding: the guards
\* alive at the panic)
Panic(thr, holding) ==
    IF thr \in MainThreads
    THEN /\ alive' = [alive EXCEPT ![NodeOf(thr)] = FALSE]
         /\ pc' = [pc EXCEPT ![thr] = "panicked"]
         /\ UNCHANGED lock
    ELSE /\ pc' = [pc EXCEPT ![thr] = "panicked"]
         /\ lock' = [m \in Mutexes |->
                       IF lock[m] = thr \/ m \in holding THEN "poisoned" ELSE lock[m]]
         /\ UNCHANGED alive

\* std::process::exit(0)
Exit(n) == alive' = [alive EXCEPT ![n] = FALSE]

----------------------------------------------------------------------------
(* Commands: the `match` of handle_command and handle_mode, and              *)
(* utils.rs synchronized_action                                              *)

\* a faulty step of the index: back by one
StepBack(track_index) == track_index - 1

\* `*track_index += 1`, of handle_mode, handle_command and the watchdog
Advance(track_index) == track_index + 1

\* a faulty bound test: the index one past the last track is let through
NoMoreTracksOffByOne(track_index, len) == track_index > len

\* `*track_index >= tracks.len()` after the increment of a next command
NoMoreTracks(track_index, len) == track_index >= len

\* buf: the datagram a discovery loop handled last, or the one the command
\* loop is handling
NoLocal == [buf |-> <<>>, addr |-> "none", command |-> <<>>, mode |-> -1, time |-> 0,
            role |-> "none", wake |-> 0, clock |-> "ntp", track_index |-> 0,
            selected_tracks |-> <<>>]

\* the arm of the match: up to the start of the wait for the target time.
\* ret and lockAtReturn: where the caller goes on, and the mutexes once the
\* guards of the returning function are dropped
Dispatch(thr, role, ret, lockAtReturn) ==
    LET n == NodeOf(thr) IN
    /\ out' = <<>>
    /\ UNCHANGED <<now, skew, net, todo, discoveryVars, tracks, should_reset,
                   sink, memberVars>>
    /\ IF role = "none"
       THEN /\ pc' = [pc EXCEPT ![thr] = ret]
            /\ lock' = lockAtReturn
            /\ local' = [local EXCEPT ![thr] = NoLocal]
            /\ UNCHANGED <<alive, current_track_index>>
       ELSE IF role = "n" /\ NoMoreTracks(Advance(current_track_index[n]), Len(tracks[n]))
       THEN \* No more tracks!
            /\ current_track_index' = [current_track_index EXCEPT ![n] = Advance(@)]
            /\ Exit(n)
            /\ UNCHANGED <<pc, lock, local>>
       ELSE /\ current_track_index' =
                  IF role = "n" THEN [current_track_index EXCEPT ![n] = Advance(@)]
                  ELSE current_track_index
            /\ \E source \in ClockSources :
                  local' = [local EXCEPT
                              ![thr].role = role,
                              ![thr].clock = source,
                              ![thr].wake = now + get_offset(n, source, local[thr].time)]
            /\ pc' = [pc EXCEPT ![thr] = "sleep"]
            /\ UNCHANGED <<alive, lock>>

\* the sleep is over: the action of the role, on the sink
Act(thr, ret, lockAtReturn) ==
    LET n == NodeOf(thr)
        role == local[thr].role
        len == Len(tracks[n])
    IN
    /\ now >= local[thr].wake
    /\ out' = <<>>
    /\ UNCHANGED <<now, skew, net, todo, discoveryVars, tracks,
                   current_track_index, should_reset, memberVars>>
    /\ IF role = "s"
       THEN \* Thanks for using the SyncStream!
            /\ Exit(n)
            /\ UNCHANGED <<pc, lock, local, sink>>
       ELSE IF lock[<<n, "sink">>] = "poisoned"
       THEN \* sink_clone.lock().unwrap() on a poisoned mutex
            /\ Panic(thr, {})
            /\ UNCHANGED <<local, sink>>
       ELSE /\ sink' = [sink EXCEPT ![n] =
                          CASE role = "p" -> SinkToggle(@)
                            [] role = "n" -> SinkSkipOne(@, len)
                            [] role = "r" -> SinkSeekStart(@, len)
                            [] OTHER -> @]
            /\ IF role = "n"
               THEN /\ pc' = [pc EXCEPT ![thr] = "set_reset"]
                    /\ UNCHANGED <<lock, local>>
               ELSE /\ pc' = [pc EXCEPT ![thr] = ret]
                    /\ lock' = lockAtReturn
                    /\ local' = [local EXCEPT ![thr] = NoLocal]
            /\ UNCHANGED alive

\* `*should_reset.lock().unwrap() = true` after the skip
SetReset(thr, ret, lockAtReturn) ==
    /\ should_reset' = [should_reset EXCEPT ![NodeOf(thr)] = TRUE]
    /\ pc' = [pc EXCEPT ![thr] = ret]
    /\ lock' = lockAtReturn
    /\ local' = [local EXCEPT ![thr] = NoLocal]
    /\ out' = <<>>
    /\ UNCHANGED <<alive, now, skew, net, todo, discoveryVars, tracks,
                   current_track_index, sink, memberVars>>

\* a command from its match to the return of the function that handles it
ApplyCommand(thr, role, ret, lockAtReturn) ==
    \/ pc[thr] = "dispatch" /\ Dispatch(thr, role, ret, lockAtReturn)
    \/ pc[thr] = "sleep" /\ Act(thr, ret, lockAtReturn)
    \/ pc[thr] = "set_reset" /\ SetReset(thr, ret, lockAtReturn)

----------------------------------------------------------------------------
(* utils.rs start_track_position_thread: the end-of-track watchdog *)

Watchdog(thr) ==
    LET n == NodeOf(thr) IN
    /\ Running(thr)
    /\ out' = <<>>
    /\ UNCHANGED <<now, skew, net, todo, discoveryVars, tracks, sink, memberVars>>
    /\ \/ /\ pc[thr] = "wd_read"
          /\ local' = [local EXCEPT ![thr].track_index = current_track_index[n]]
          /\ pc' = [pc EXCEPT ![thr] = "wd_check"]
          /\ UNCHANGED <<alive, lock, current_track_index, should_reset>>
       \/ /\ pc[thr] = "wd_check"
          /\ UNCHANGED <<local, current_track_index, should_reset>>
          /\ IF lock[<<n, "sink">>] = "poisoned"
             THEN Panic(thr, {})
             ELSE IF local[thr].track_index >= Len(tracks[n])
             THEN \* tracks[track_index] out of bounds, the sink guard still alive
                  Panic(thr, {<<n, "sink">>})
             ELSE /\ pc' = [pc EXCEPT ![thr] =
                              IF sink[n].pos >= TrackMs THEN "wd_inc" ELSE "wd_read"]
                  /\ UNCHANGED <<alive, lock>>
       \/ /\ pc[thr] = "wd_inc"
          /\ current_track_index' = [current_track_index EXCEPT ![n] = Advance(@)]
          /\ pc' = [pc EXCEPT ![thr] = "wd_reset"]
          /\ UNCHANGED <<alive, lock, local, should_reset>>
       \/ /\ pc[thr] = "wd_reset"
          /\ should_reset' = [should_reset EXCEPT ![n] = TRUE]
          /\ pc' = [pc EXCEPT ![thr] = "wd_exit"]
          /\ UNCHANGED <<alive, lock, local, current_track_index>>
       \/ /\ pc[thr] = "wd_exit"
          /\ UNCHANGED <<lock, local, current_track_index, should_reset>>
          /\ IF current_track_index[n] >= Len(tracks[n])
             THEN Exit(n) /\ UNCHANGED pc
             ELSE pc' = [pc EXCEPT ![thr] = "wd_read"] /\ UNCHANGED alive

----------------------------------------------------------------------------
(* player.rs display_progress: the progress renderer *)

Progress(thr) ==
    LET n == NodeOf(thr) IN
    /\ Running(thr)
    /\ out' = <<>>
    /\ UNCHANGED <<now, skew, net, todo, discoveryVars, tracks,
                   current_track_index, sink, memberVars>>
    /\ UNCHANGED local
    /\ \/ /\ pc[thr] = "pr_read"
          /\ UNCHANGED should_reset
          /\ IF current_track_index[n] >= Len(tracks[n])
             THEN \* tracks[track_index] out of bounds, no guard alive
                  Panic(thr, {})
             ELSE /\ pc' = [pc EXCEPT ![thr] = "pr_loop"]
                  /\ UNCHANGED <<alive, lock>>
       \/ /\ pc[thr] = "pr_loop"
          /\ UNCHANGED should_reset
          /\ IF should_reset[n]
             THEN pc' = [pc EXCEPT ![thr] = "pr_clear"] /\ UNCHANGED <<alive, lock>>
             ELSE IF lock[<<n, "sink">>] = "poisoned"
             THEN Panic(thr, {})
             ELSE UNCHANGED <<alive, pc, lock>>
       \/ /\ pc[thr] = "pr_clear"
          /\ should_reset' = [should_reset EXCEPT ![n] = FALSE]
          /\ pc' = [pc EXCEPT ![thr] = "pr_read"]
          /\ UNCHANGED <<alive, lock>>

----------------------------------------------------------------------------
(* Leader: discovery (leader.rs start_ping_thread, stop_ping_thread) *)

\* a faulty insert: the set is overwritten by its newest element
HashSetInsertReplace(set, addr) == {addr}

\* HashSet::insert
HashSetInsert(set, addr) == set \cup {addr}

\* send_to: the datagram leaves, or the call returns an error and nothing does
SendTo(d, ok) ==
    /\ out' = <<d>>
    /\ net' = IF ok THEN net \cup Carried({d}) ELSE net

\* loop head of the ping thread: the termination flag, then the next id
PingCheck ==
    /\ Running("l_ping") /\ pc["l_ping"] = "check"
    /\ IF ping_thread_should_terminate
       THEN /\ pc' = [pc EXCEPT !["l_ping"] = "done"]
            /\ UNCHANGED broadcast_id
       ELSE /\ broadcast_id < MaxPings
            /\ broadcast_id' = broadcast_id + 1
            /\ pc' = [pc EXCEPT !["l_ping"] = "send"]
    /\ out' = <<>>
    /\ UNCHANGED <<alive, lock, now, skew, net, todo, local, members,
                   ping_thread_should_terminate, recvCount, doneCount,
                   playbackVars, memberVars>>

\* the ping is broadcast; a failure is printed and the loop goes on
PingSend ==
    /\ Running("l_ping") /\ pc["l_ping"] = "send"
    /\ \E ok \in BOOLEAN :
          SendTo(Dgram(LeaderAddr, BroadcastAddr, PingMessage(broadcast_id)), ok)
    /\ pc' = [pc EXCEPT !["l_ping"] = "recv"]
    /\ UNCHANGED <<alive, lock, now, skew, todo, local, discoveryVars,
                   playbackVars, memberVars>>

\* one recv_from of the drain loop: a datagram, whatever it holds, makes its
\* sender a member; the read timeout or a receive error ends the drain
PingRecv ==
    /\ Running("l_ping") /\ pc["l_ping"] = "recv"
    /\ out' = <<>>
    /\ \/ \E d \in Deliverable(LeaderAddr) :
             /\ net' = net \ {d}
             /\ local' = [local EXCEPT !["l_ping"].buf = d.msg, !["l_ping"].addr = d.src]
             /\ members' = HashSetInsert(members, d.src)
             /\ recvCount' = [recvCount EXCEPT ![d.src] = Min(@ + 1, MaxCount)]
             /\ UNCHANGED pc
       \/ /\ pc' = [pc EXCEPT !["l_ping"] = "sleep"]
          /\ local' = [local EXCEPT !["l_ping"] = NoLocal]
          /\ UNCHANGED <<net, members, recvCount>>
    /\ UNCHANGED <<alive, lock, now, skew, todo, ping_thread_should_terminate,
                   broadcast_id, doneCount, playbackVars, memberVars>>

\* thread::sleep(500 ms) between two pings
PingSleep ==
    /\ Running("l_ping") /\ pc["l_ping"] = "sleep"
    /\ pc' = [pc EXCEPT !["l_ping"] = "check"]
    /\ out' = <<>>
    /\ UNCHANGED <<alive, lock, now, skew, net, todo, local, discoveryVars,
                   playbackVars, memberVars>>

\* the operator presses ENTER: stop_ping_thread sets the termination flag
StopPing ==
    /\ Running("l_main") /\ pc["l_main"] = "prompt_ping"
    /\ ping_thread_should_terminate' = TRUE
    /\ pc' = [pc EXCEPT !["l_main"] = "join"]
    /\ out' = <<>>
    /\ UNCHANGED <<alive, lock, now, skew, net, todo, local, members, broadcast_id,
                   recvCount, doneCount, playbackVars, memberVars>>

\* a faulty join: it returns while the ping thread is still running
JoinReturnsEarly == TRUE

\* ping_thread.join() holds the main thread until the ping thread has ended
JoinReturns == pc["l_ping"] = "done"

\* after the join: the member set is locked for the whole `for` loop
JoinPing ==
    /\ Running("l_main") /\ pc["l_main"] = "join"
    /\ JoinReturns
    /\ lock[MembersMutex] = "none"
    /\ lock' = [lock EXCEPT ![MembersMutex] = "l_main"]
    /\ todo' = [todo EXCEPT !["l_main"] = members]
    /\ pc' = [pc EXCEPT !["l_main"] = "send_done"]
    /\ out' = <<>>
    /\ UNCHANGED <<alive, now, skew, net, local, discoveryVars, playbackVars, memberVars>>

\* one turn of `for member in members.lock().unwrap().iter()`: a failed send
\* returns the error up to main, which ends the process
SendDone ==
    /\ Running("l_main") /\ pc["l_main"] = "send_done"
    /\ UNCHANGED <<now, skew, local, members, ping_thread_should_terminate,
                   broadcast_id, recvCount, playbackVars, memberVars>>
    /\ IF todo["l_main"] = {}
       THEN /\ lock' = [lock EXCEPT ![MembersMutex] = "none"]
            /\ pc' = [pc EXCEPT !["l_main"] = "prompt_start"]
            /\ out' = <<>>
            /\ UNCHANGED <<alive, net, todo, doneCount>>
       ELSE \E a \in todo["l_main"], ok \in BOOLEAN :
               /\ SendTo(Dgram(LeaderAddr, a, DoneBroadcasting), ok)
               /\ doneCount' = [doneCount EXCEPT ![a] = Min(@ + 1, MaxCount)]
               /\ IF ok
                  THEN /\ todo' = [todo EXCEPT !["l_main"] = @ \ {a}]
                       /\ UNCHANGED <<alive, pc, lock>>
                  ELSE /\ Exit("L")
                       /\ pc' = [pc EXCEPT !["l_main"] = "failed"]
                       /\ lock' = [lock EXCEPT ![MembersMutex] = "none"]
                       /\ UNCHANGED todo

----------------------------------------------------------------------------
(* Leader: playback setup (leader.rs run_leader) *)

\* the operator starts the playback and selects tracks; the member set is
\* locked for the track-list loop by a guard that lives to the end of
\* run_leader
StartPlayback ==
    /\ Running("l_main") /\ pc["l_main"] = "prompt_start"
    /\ lock[MembersMutex] = "none"
    /\ \E selected \in SUBSET SeqRange(Media) :
          tracks' = [tracks EXCEPT !["L"] = Filter(Media, selected)]
    /\ sink' = [sink EXCEPT !["L"] = NewSink]
    /\ lock' = [lock EXCEPT ![MembersMutex] = "l_main"]
    /\ todo' = [todo EXCEPT !["l_main"] = members]
    /\ pc' = [pc EXCEPT !["l_main"] = "send_tracks"]
    /\ out' = <<>>
    /\ UNCHANGED <<alive, now, skew, net, local, discoveryVars, current_track_index,
                   should_reset, memberVars>>

\* one turn of the track-list loop; after the last one the renderer, the
\* listener and the watchdog are spawned and the input loop begins
SendTracks ==
    /\ Running("l_main") /\ pc["l_main"] = "send_tracks"
    /\ UNCHANGED <<now, skew, local, discoveryVars, tracks, sink, memberVars>>
    /\ IF todo["l_main"] = {}
       THEN /\ current_track_index' = [current_track_index EXCEPT !["L"] = 0]
            /\ should_reset' = [should_reset EXCEPT !["L"] = FALSE]
            /\ pc' = [pc EXCEPT !["l_main"] = "input",
                                !["l_progress"] = "pr_read",
                                !["l_listener"] = "recv",
                                !["l_watchdog"] = "wd_read"]
            /\ out' = <<>>
            /\ UNCHANGED <<alive, lock, net, todo>>
       ELSE \E a \in todo["l_main"], ok \in BOOLEAN :
               /\ SendTo(Dgram(LeaderAddr, a, TracksMessage(tracks["L"])), ok)
               /\ UNCHANGED <<current_track_index, should_reset>>
               /\ IF ok
                  THEN /\ todo' = [todo EXCEPT !["l_main"] = @ \ {a}]
                       /\ UNCHANGED <<alive, pc, lock>>
                  ELSE /\ Exit("L")
                       /\ pc' = [pc EXCEPT !["l_main"] = "failed"]
                       /\ lock' = [lock EXCEPT ![MembersMutex] = "none"]
                       /\ UNCHANGED todo

----------------------------------------------------------------------------
(* Leader: commands (leader.rs user_input_loop, start_listener_thread,     *)
(* handle_command)                                                         *)

CommandThreads == {"l_main", "l_listener"}

\* the match of user_input_loop and of the listener: the code of a command
LeaderCommand(text) ==
    CASE text = <<"p">> -> <<"0">>
      [] text = <<"n">> -> <<"2">>
      [] text = <<"s">> -> <<"3">>
      [] text = <<"r">> -> <<"4">>
      [] OTHER -> <<>>

\* the match of handle_command: the role given to synchronized_action
LeaderRole(command) ==
    CASE command = <<"0">> -> "p"
      [] command = <<"2">> -> "n"
      [] command = <<"3">> -> "s"
      [] command = <<"4">> -> "r"
      [] OTHER -> "none"

\* lines the operator may type
OperatorLines == {<<"p", "\n">>, <<"n", "\n">>, <<"r", "\n">>, <<"s", "\n">>, <<"x", "\n">>}

\* where a thread goes on after handle_command
AfterCommand(thr) == IF thr = "l_main" THEN "input" ELSE "recv"

\* a line of the operator: the start time is computed, then the command matched
LeaderInput ==
    /\ Running("l_main") /\ pc["l_main"] = "input"
    /\ out' = <<>>
    /\ \E line \in OperatorLines, source \in ClockSources :
          LET command == LeaderCommand(Trim(line)) IN
          IF command = <<>>
          THEN UNCHANGED <<pc, local>>
          ELSE /\ local' = [local EXCEPT
                              !["l_main"].command = command,
                              !["l_main"].time = broadcast_start_time("L", source)]
               /\ pc' = [pc EXCEPT !["l_main"] = "hc_lock"]
    /\ UNCHANGED <<alive, lock, now, skew, net, todo, discoveryVars, playbackVars,
                   memberVars>>

\* the listener handles one datagram: a ping is skipped, a command gets its
\* start time and goes to handle_command, anything else is printed
ListenerRecvOf(d, source) ==
    LET command == LeaderCommand(Trim(d.msg)) IN
    /\ net' = net \ {d}
    /\ IF StartsWith(d.msg, PING) \/ command = <<>>
       THEN UNCHANGED <<pc, local>>
       ELSE /\ local' = [local EXCEPT
                           !["l_listener"].command = command,
                           !["l_listener"].time = broadcast_start_time("L", source)]
            /\ pc' = [pc EXCEPT !["l_listener"] = "hc_lock"]

\* a turn of the listener's loop: what no turn touches
ListenerLoop ==
    /\ Running("l_listener") /\ pc["l_listener"] = "recv"
    /\ out' = <<>>
    /\ UNCHANGED <<alive, lock, now, skew, todo, discoveryVars, playbackVars, memberVars>>

\* one recv_from of the listener thread
ListenerRecv ==
    /\ ListenerLoop
    /\ \/ \E d \in Deliverable(LeaderAddr), source \in ClockSources :
             ListenerRecvOf(d, source)
       \/ \* a receive error other than the timeout ends the thread
          /\ pc' = [pc EXCEPT !["l_listener"] = "done"]
          /\ UNCHANGED <<net, local>>

\* `addr_list.lock().unwrap()`: locking a mutex the thread itself holds never
\* returns, it blocks for ever or panics; a mutex another thread holds makes
\* the thread wait
LockMembers(thr) ==
    /\ lock[MembersMutex] # "none" => lock[MembersMutex] \in {thr, "poisoned"}
    /\ UNCHANGED <<net, local, playbackVars>>
    /\ out' = <<>>
    /\ IF lock[MembersMutex] = "none"
       THEN /\ lock' = [lock EXCEPT ![MembersMutex] = thr]
            /\ todo' = [todo EXCEPT ![thr] = members]
            /\ pc' = [pc EXCEPT ![thr] = "hc_send"]
            /\ UNCHANGED alive
       ELSE IF lock[MembersMutex] = thr
       THEN /\ UNCHANGED todo
            /\ \/ pc' = [pc EXCEPT ![thr] = "deadlocked"] /\ UNCHANGED <<alive, lock>>
               \/ Panic(thr, {})
       ELSE Panic(thr, {}) /\ UNCHANGED todo

\* one turn of `for addr in addr_list.iter()`: a failed send is returned to
\* the caller, `?` in the input loop and unwrap() in the listener
FanOut(thr) ==
    /\ UNCHANGED <<local, playbackVars>>
    /\ IF todo[thr] = {}
       THEN /\ pc' = [pc EXCEPT ![thr] = "dispatch"]
            /\ out' = <<>>
            /\ UNCHANGED <<alive, lock, net, todo>>
       ELSE \E a \in todo[thr], ok \in BOOLEAN :
               /\ SendTo(Dgram(LeaderAddr, a,
                               CommandMessage(local[thr].command, local[thr].time)), ok)
               /\ IF ok
                  THEN /\ todo' = [todo EXCEPT ![thr] = @ \ {a}]
                       /\ UNCHANGED <<alive, pc, lock>>
                  ELSE IF thr = "l_main"
                  THEN /\ Exit("L")
                       /\ pc' = [pc EXCEPT ![thr] = "failed"]
                       /\ lock' = [lock EXCEPT ![MembersMutex] = "none"]
                       /\ UNCHANGED todo
                  ELSE Panic(thr, {MembersMutex}) /\ UNCHANGED todo

\* handle_command, step by step
HandleCommand(thr) ==
    /\ Running(thr)
    /\ pc[thr] \in {"hc_lock", "hc_send", "dispatch", "sleep", "set_reset"}
    /\ UNCHANGED <<now, skew, discoveryVars, memberVars>>
    /\ \/ pc[thr] = "hc_lock" /\ LockMembers(thr)
       \/ pc[thr] = "hc_send" /\ FanOut(thr)
       \/ ApplyCommand(thr, LeaderRole(local[thr].command), AfterCommand(thr),
                       [lock EXCEPT ![MembersMutex] = "none"])

----------------------------------------------------------------------------
(* Member: discovery (member.rs run_member, handle_ping_message) *)

\* `id > *last_received_id`
NewerPing(id, last) == id > last

\* a faulty binding test: the member takes itself for unbound at every ping
UnboundAlways(addr) == TRUE

\* `leader_addr.lock().unwrap().is_none()`
Unbound(addr) == addr = "none"

\* the discovery loop handles one datagram; an error of the ACK's send_to is
\* returned by run_member, which ends the process
MemberDiscoveryOf(d) ==
    LET parts == Split(d.msg, ",")
        id == ParseU64(parts[2])
    IN
    /\ local' = [local EXCEPT !["m_main"].buf =
                                IF d.msg = DoneBroadcasting THEN <<>> ELSE d.msg]
    /\ IF StartsWith(d.msg, PING)
       THEN IF Len(parts) < 2
            THEN \* parts[1] out of bounds
                 /\ Panic("m_main", {})
                 /\ out' = <<>>
                 /\ UNCHANGED <<sink, memberVars>>
            ELSE IF id = -1
            THEN /\ out' = <<>>
                 /\ UNCHANGED <<alive, pc, sink, memberVars>>
            ELSE /\ maxSeen' = IF id > maxSeen THEN id ELSE maxSeen
                 /\ UNCHANGED sink
                 /\ IF NewerPing(id, last_received_id)
                    THEN /\ last_received_id' = id
                         /\ IF Unbound(leader_addr)
                            THEN \E ok \in BOOLEAN :
                                    /\ out' = <<Dgram(MemberAddr, d.src, ACK)>>
                                    /\ ackCount' = Min(ackCount + 1, MaxCount)
                                    /\ IF ok
                                       THEN /\ leader_addr' = d.src
                                            /\ UNCHANGED <<alive, pc>>
                                       ELSE /\ Exit("M")
                                            /\ pc' = [pc EXCEPT !["m_main"] = "failed"]
                                            /\ UNCHANGED leader_addr
                            ELSE /\ out' = <<>>
                                 /\ UNCHANGED <<alive, pc, ackCount, leader_addr>>
                    ELSE /\ out' = <<>>
                         /\ UNCHANGED <<alive, pc, last_received_id, ackCount,
                                        leader_addr>>
       ELSE IF d.msg = DoneBroadcasting
       THEN \* the input thread is spawned, the sink made and paused
            /\ pc' = [pc EXCEPT !["m_main"] = "wait_tracks", !["m_input"] = "idle"]
            /\ sink' = [sink EXCEPT !["M"] = NewSink]
            /\ out' = <<>>
            /\ UNCHANGED <<alive, memberVars>>
       ELSE /\ out' = <<>>
            /\ UNCHANGED <<alive, pc, sink, memberVars>>
    /\ net' = (net \ {d}) \cup
              (IF alive'["M"] THEN Carried(SeqRange(out')) ELSE {})

\* a turn of the discovery loop: what no turn touches
DiscoveryLoop ==
    /\ Running("m_main") /\ pc["m_main"] = "disc_recv"
    /\ UNCHANGED <<lock, now, skew, todo, discoveryVars, tracks,
                   current_track_index, should_reset>>

\* one recv_from of the discovery loop; an error of recv_from is returned by
\* run_member, which ends the process
MemberDiscovery ==
    /\ DiscoveryLoop
    /\ \/ \E d \in Deliverable(MemberAddr) : MemberDiscoveryOf(d)
       \/ /\ Exit("M")
          /\ pc' = [pc EXCEPT !["m_main"] = "failed"]
          /\ out' = <<>>
          /\ UNCHANGED <<net, local, sink, memberVars>>

\* the datagram read for the track list is handled: `message.split(':')`,
\* its second piece split at ',' and the local tracks filtered by those names
MemberTracksOf(d) ==
    LET parts == Split(d.msg, ":") IN
    /\ net' = net \ {d}
    /\ IF Len(parts) < 2
       THEN \* selected_tracks[1] out of bounds
            /\ Panic("m_main", {})
            /\ UNCHANGED <<tracks, current_track_index, should_reset>>
       ELSE /\ tracks' = [tracks EXCEPT
                            !["M"] = Filter(Media, SeqRange(SelectedTracks(d.msg)))]
            /\ current_track_index' = [current_track_index EXCEPT !["M"] = 0]
            /\ should_reset' = [should_reset EXCEPT !["M"] = FALSE]
            /\ pc' = [pc EXCEPT !["m_main"] = "cmd_recv",
                                !["m_progress"] = "pr_read",
                                !["m_watchdog"] = "wd_read"]
            /\ UNCHANGED alive

\* the wait for the track list: what it never touches
TracksWait ==
    /\ Running("m_main") /\ pc["m_main"] = "wait_tracks"
    /\ out' = <<>>
    /\ UNCHANGED <<lock, now, skew, todo, local, discoveryVars, sink, memberVars>>

\* the one recv_from for the track list; its error is returned by
\* run_member, which ends the process
MemberTracks ==
    /\ TracksWait
    /\ \/ \E d \in Deliverable(MemberAddr) : MemberTracksOf(d)
       \/ /\ Exit("M")
          /\ pc' = [pc EXCEPT !["m_main"] = "failed"]
          /\ UNCHANGED <<net, tracks, current_track_index, should_reset>>

----------------------------------------------------------------------------
(* Member: commands (member.rs handle_incoming_messages, handle_mode,      *)
(* spawn_user_input_thread)                                                *)

\* the match of handle_mode: the role given to synchronized_action
MemberRole(mode) ==
    CASE mode = 0 -> "p"
      [] mode = 2 -> "n"
      [] mode = 3 -> "s"
      [] mode = 4 -> "r"
      [] OTHER -> "none"

\* the command loop handles one datagram: the timestamp, then the mode; a
\* datagram that lacks one of them is printed and dropped
MemberRecvOf(d) ==
    LET timestamp == extract_timestamp(d.msg)
        mode == extract_mode(d.msg)
    IN
    /\ net' = net \ {d}
    /\ IF timestamp # -1 /\ mode # -1
       THEN /\ local' = [local EXCEPT !["m_main"].buf = d.msg,
                                      !["m_main"].mode = mode,
                                      !["m_main"].time = timestamp]
            /\ pc' = [pc EXCEPT !["m_main"] = "dispatch"]
       ELSE UNCHANGED <<pc, local>>

\* a turn of the command loop: what no turn touches
CommandLoop ==
    /\ Running("m_main") /\ pc["m_main"] = "cmd_recv"
    /\ out' = <<>>
    /\ UNCHANGED <<alive, lock, now, skew, todo, discoveryVars, playbackVars, memberVars>>

\* one recv_from of the command loop; a receive error is printed and the
\* loop goes on
MemberRecv ==
    /\ CommandLoop
    /\ \/ \E d \in Deliverable(MemberAddr) : MemberRecvOf(d)
       \/ UNCHANGED <<pc, net, local>>

\* handle_mode, step by step
HandleMode ==
    /\ Running("m_main")
    /\ ApplyCommand("m_main", MemberRole(local["m_main"].mode), "cmd_recv", lock)

\* the command a line of the member's operator stands for, <<>> for none
MemberCommand(trimmed) ==
    IF trimmed \in {<<"p">>, <<"n">>, <<"s">>, <<"r">>} THEN trimmed ELSE <<>>

\* a faulty target: the command goes to the whole subnet
InputTargetBroadcast(addr) == BroadcastAddr

\* where the input thread sends a command
InputTarget(addr) == addr

\* a line of the member's operator: the leader address is locked by the
\* `if let`, whose guard lives to the end of its body
MemberInput ==
    /\ Running("m_input") /\ pc["m_input"] = "idle"
    /\ lock[LeaderAddrMutex] = "none"
    /\ out' = <<>>
    /\ \E line \in OperatorLines :
          LET trimmed == Trim(line) IN
          IF ~Unbound(leader_addr) /\ MemberCommand(trimmed) # <<>>
          THEN /\ local' = [local EXCEPT !["m_input"].command = MemberCommand(trimmed),
                                         !["m_input"].addr = InputTarget(leader_addr)]
               /\ lock' = [lock EXCEPT ![LeaderAddrMutex] = "m_input"]
               /\ pc' = [pc EXCEPT !["m_input"] = "in_send"]
          ELSE UNCHANGED <<pc, lock, local>>
    /\ UNCHANGED <<alive, now, skew, net, todo, discoveryVars, playbackVars, memberVars>>

\* the send_to of the input thread; a failure is printed
MemberInputSend ==
    /\ Running("m_input") /\ pc["m_input"] = "in_send"
    /\ \E ok \in BOOLEAN :
          SendTo(Dgram(MemberAddr, local["m_input"].addr, local["m_input"].command), ok)
    /\ lock' = [lock EXCEPT ![LeaderAddrMutex] = "none"]
    /\ pc' = [pc EXCEPT !["m_input"] = "idle"]
    /\ local' = [local EXCEPT !["m_input"] = NoLocal]
    /\ UNCHANGED <<alive, now, skew, todo, discoveryVars, playbackVars, memberVars>>

----------------------------------------------------------------------------
(* Specifications *)

\* the state after both programs have started: the leader has spawned its
\* ping thread and prompts, the member listens
Init ==
    /\ alive \in [Nodes -> BOOLEAN]
    /\ pc = [t \in Threads |->
               CASE t = "l_main" -> "prompt_ping"
                 [] t = "l_ping" -> "check"
                 [] t = "m_main" -> "disc_recv"
                 [] OTHER -> "unspawned"]
    /\ lock = [m \in Mutexes |-> "none"]
    /\ now = 0
    /\ skew \in [Nodes -> {0, TickMs}]
    /\ net = {}
    /\ out = <<>>
    /\ members = {}
    /\ ping_thread_should_terminate = FALSE
    /\ broadcast_id = 0
    /\ todo = [t \in Threads |-> {}]
    /\ tracks = [n \in Nodes |-> <<>>]
    /\ current_track_index = [n \in Nodes |-> 0]
    /\ should_reset = [n \in Nodes |-> FALSE]
    /\ sink = [n \in Nodes |-> NewSink]
    /\ local = [t \in Threads |-> NoLocal]
    /\ last_received_id = 0
    /\ leader_addr = "none"
    /\ recvCount = [a \in Peers |-> 0]
    /\ doneCount = [a \in Peers |-> 0]
    /\ maxSeen = -1
    /\ ackCount = 0

\* the leader, with the other hosts as its environment
InitLeader ==
    /\ Init
    /\ alive = [n \in Nodes |-> n = "L"]
    /\ skew = [n \in Nodes |-> IF n = "L" THEN TickMs ELSE 0]

NextLeader ==
    \/ PingCheck
    \/ PingSend
    \/ PingRecv
    \/ PingSleep
    \/ StopPing
    \/ JoinPing
    \/ SendDone
    \/ StartPlayback
    \/ SendTracks
    \/ LeaderInput
    \/ ListenerRecv
    \/ \E thr \in CommandThreads : HandleCommand(thr)
    \/ Watchdog("l_watchdog")
    \/ Progress("l_progress")
    \/ Tick

SpecLeader == InitLeader /\ [][NextLeader]_vars

\* a member, with the other hosts as its environment
InitMember ==
    /\ Init
    /\ alive = [n \in Nodes |-> n = "M"]
    /\ skew = [n \in Nodes |-> IF n = "M" THEN TickMs ELSE 0]

NextMember ==
    \/ MemberDiscovery
    \/ MemberTracks
    \/ MemberRecv
    \/ HandleMode
    \/ MemberInput
    \/ MemberInputSend
    \/ Watchdog("m_watchdog")
    \/ Progress("m_progress")
    \/ SinkAdvance("M")
    \/ Tick

SpecMember == InitMember /\ [][NextMember]_vars

\* either program of main.rs, started alone, with the other hosts as its
\* environment
InitNode == InitLeader \/ InitMember

NextNode == NextLeader \/ NextMember

SpecNode == InitNode /\ [][NextNode]_vars

----------------------------------------------------------------------------
(* The functions of utils.rs and the format of handle_command, called on   *)
(* drawn inputs: a command is formatted as the leader does, decoded as the *)
(* member does, and the offset to its target time is computed              *)

\* the codes handle_command is called with
CommandCodes == {<<"0">>, <<"2">>, <<"3">>, <<"4">>}

\* target times: the ends of the range, the changes of length of the decimal
\* form, and times around the instants drawn for the clock
TimeSamples == {0, 1, 9, 10, 999, 1000, 1001, 1499, 1500, 1501, U64Top - 1, U64Top}

\* instants at which the offset is computed
NowSamples == {0, LeadMs, U64Top - TickMs}

\* file names of a media directory, sorted: plain ones, one of a non-ASCII
\* character and one that holds a comma
NameSamples == << <<"a">>, <<"b">>, <<"c", ",", "d">>, <<"é">> >>

InitUtils ==
    /\ alive = [n \in Nodes |-> FALSE]
    /\ pc \in {[t \in Threads |-> IF t = "l_main" THEN f ELSE "unspawned"] :
                  f \in {"fn_format", "fn_tracks"}}
    /\ lock = [m \in Mutexes |-> "none"]
    /\ now \in NowSamples
    /\ skew \in [Nodes -> {0, TickMs}]
    /\ net = {}
    /\ out = <<>>
    /\ members = {}
    /\ ping_thread_should_terminate = FALSE
    /\ broadcast_id = 0
    /\ todo = [t \in Threads |-> {}]
    /\ current_track_index = [n \in Nodes |-> 0]
    /\ should_reset = [n \in Nodes |-> FALSE]
    /\ sink = [n \in Nodes |-> NewSink]
    /\ IF pc["l_main"] = "fn_format"
       THEN /\ tracks = [n \in Nodes |-> <<>>]
            /\ \E command \in CommandCodes, global_start_time \in TimeSamples :
                  local = [t \in Threads |->
                             IF t = "l_main"
                             THEN [NoLocal EXCEPT !.command = command,
                                                  !.time = global_start_time]
                             ELSE NoLocal]
       ELSE /\ \E selected \in SUBSET SeqRange(NameSamples) :
                  tracks = [n \in Nodes |->
                              IF n = "L" THEN Filter(NameSamples, selected) ELSE <<>>]
            /\ local = [t \in Threads |-> NoLocal]
    /\ last_received_id = 0
    /\ leader_addr = "none"
    /\ recvCount = [a \in Peers |-> 0]
    /\ doneCount = [a \in Peers |-> 0]
    /\ maxSeen = -1
    /\ ackCount = 0

\* leader.rs:353, the datagram of a command
FormatCommand ==
    /\ pc["l_main"] = "fn_format"
    /\ out' = <<Dgram(LeaderAddr, MemberAddr,
                      CommandMessage(local["l_main"].command, local["l_main"].time))>>
    /\ pc' = [pc EXCEPT !["l_main"] = "fn_extract"]
    /\ UNCHANGED <<alive, lock, now, skew, net, todo, local, discoveryVars,
                   playbackVars, memberVars>>

\* member.rs:154-155, the timestamp and the mode of the datagram
ExtractCommand ==
    /\ pc["l_main"] = "fn_extract"
    /\ local' = [local EXCEPT !["m_main"].buf = out[1].msg,
                              !["m_main"].mode = extract_mode(out[1].msg),
                              !["m_main"].time = extract_timestamp(out[1].msg)]
    /\ pc' = [pc EXCEPT !["l_main"] = "fn_offset"]
    /\ UNCHANGED <<alive, lock, now, skew, net, out, todo, discoveryVars,
                   playbackVars, memberVars>>

\* utils.rs:114, the offset to the decoded target time, kept as the instant
\* at which the sleep ends
GetOffset ==
    /\ pc["l_main"] = "fn_offset"
    /\ \E source \in ClockSources :
          local' = [local EXCEPT
                      !["m_main"].clock = source,
                      !["m_main"].wake = now + get_offset("M", source, local["m_main"].time)]
    /\ pc' = [pc EXCEPT !["l_main"] = "fn_done"]
    /\ UNCHANGED <<alive, lock, now, skew, net, out, todo, discoveryVars,
                   playbackVars, memberVars>>

\* leader.rs:71-76, the datagram of the track list
FormatTracks ==
    /\ pc["l_main"] = "fn_tracks"
    /\ out' = <<Dgram(LeaderAddr, MemberAddr, TracksMessage(tracks["L"]))>>
    /\ pc' = [pc EXCEPT !["l_main"] = "fn_split"]
    /\ UNCHANGED <<alive, lock, now, skew, net, todo, local, discoveryVars,
                   playbackVars, memberVars>>

\* member.rs:52-54, the names the member takes from the datagram
SplitTracks ==
    /\ pc["l_main"] = "fn_split"
    /\ local' = [local EXCEPT !["m_main"].buf = out[1].msg,
                              !["m_main"].selected_tracks = SelectedTracks(out[1].msg)]
    /\ pc' = [pc EXCEPT !["l_main"] = "fn_names"]
    /\ UNCHANGED <<alive, lock, now, skew, net, out, todo, discoveryVars,
                   playbackVars, memberVars>>

NextUtils ==
    \/ FormatCommand
    \/ ExtractCommand
    \/ GetOffset
    \/ FormatTracks
    \/ SplitTracks

SpecUtils == InitUtils /\ [][NextUtils]_vars

----------------------------------------------------------------------------
(* Fairness: every thread of the leader that can take a step of its own    *)
(* code is scheduled in the end.  What the operator types and what the     *)
(* network delivers are not steps of the program and carry no fairness.    *)

PingThread == PingCheck \/ PingSend \/ PingRecv \/ PingSleep

LeaderMainSteps == JoinPing \/ SendDone \/ SendTracks \/ HandleCommand("l_main")

FairLeader ==
    /\ SpecLeader
    /\ WF_vars(PingThread)
    /\ WF_vars(LeaderMainSteps)
    /\ WF_vars(HandleCommand("l_listener"))
    /\ WF_vars(Watchdog("l_watchdog"))
    /\ WF_vars(Tick)

\* the same for the member: its handler, its watchdog, its renderer, its
\* sink and the clock go on; what arrives on its socket and what its
\* operator types carry no fairness
FairMember ==
    /\ SpecMember
    /\ WF_vars(HandleMode)
    /\ WF_vars(Watchdog("m_watchdog"))
    /\ WF_vars(Progress("m_progress"))
    /\ WF_vars(SinkAdvance("M"))
    /\ WF_vars(Tick)

----------------------------------------------------------------------------
(* A leader and a member on one network during discovery: the leader from  *)
(* its first ping to the end of stop_ping_thread, the member until it has  *)
(* left its discovery loop                                                 *)

InitDiscovery ==
    /\ Init
    /\ alive = [n \in Nodes |-> TRUE]
    /\ skew = [n \in Nodes |-> 0]

NextDiscovery ==
    \/ PingCheck
    \/ PingSend
    \/ PingRecv
    \/ PingSleep
    \/ StopPing
    \/ JoinPing
    \/ SendDone
    \/ MemberDiscovery

SpecDiscovery == InitDiscovery /\ [][NextDiscovery]_vars

----------------------------------------------------------------------------
(* Properties *)

\* handle_command has sent the command to every member and has not yet
\* touched the leader's own playback state
FannedOut(thr) == pc[thr] = "dispatch" /\ todo[thr] = {}

\* handle_command has returned to its caller
Returned(thr) == pc[thr] = AfterCommand(thr)

\* C1: on a leader whose playback setup has completed, every valid command
\* entered by the operator or received from a member is eventually sent to
\* every address of the member set and then applied to the leader's own
\* playback state, unless the process has terminated.
C1_CommandSentThenApplied ==
    \A thr \in CommandThreads :
        [](pc[thr] = "hc_lock" /\ alive["L"]
             => <>(~alive["L"] \/ (FannedOut(thr) /\ <>(~alive["L"] \/ Returned(thr)))))

PlaybackState(n) == <<current_track_index[n], sink[n].paused, sink[n].cur, sink[n].pos,
                      should_reset[n]>>

\* C2: for every command the leader handles, the command datagram is sent to
\* every known member before the leader changes its own track index, sink or
\* pending-reset flag for it, and the target time in the datagram is the one
\* the leader computed for that command.
C2_FanOutBeforeOwnState ==
    /\ \A thr \in CommandThreads :
          [](pc[thr] = "hc_lock" /\ alive["L"] => <>(~alive["L"] \/ FannedOut(thr)))
    /\ [][\A thr \in CommandThreads :
             /\ (HandleCommand(thr) /\ PlaybackState("L")' # PlaybackState("L"))
                   => pc[thr] \in {"dispatch", "sleep", "set_reset"}
             /\ (HandleCommand(thr) /\ pc[thr] = "hc_send" /\ todo[thr] # {})
                   => \E a \in members :
                         out' = <<Dgram(LeaderAddr, a,
                                        CommandMessage(local[thr].command, local[thr].time))>>
             /\ (pc[thr] # "hc_lock" /\ pc'[thr] = "hc_lock")
                   => \E source \in ClockSources :
                         local'[thr].time = broadcast_start_time("L", source)]_vars

\* the thread is about to call send_to
Sending(thr) ==
    \/ thr = "l_ping" /\ pc[thr] = "send"
    \/ thr = "l_main" /\ pc[thr] \in {"send_done", "send_tracks"} /\ todo[thr] # {}
    \/ thr \in CommandThreads /\ pc[thr] = "hc_send" /\ todo[thr] # {}
    \/ thr = "m_input" /\ pc[thr] = "in_send"

\* the thread sleeps in synchronized_action until the target time
Sleeping(thr) == thr \in CommandThreads \cup {"m_main"} /\ pc[thr] = "sleep"

\* C4: in every reachable state no thread holds a mutex while it performs a
\* network send or while it sleeps waiting for a target time.
C4_NoLockAcrossSendOrSleep ==
    \A thr \in Threads :
        Running(thr) /\ (Sending(thr) \/ Sleeping(thr)) => HeldBy(thr) = {}

\* C7: the member set holds each sender address of the discovery loop once,
\* and its size is the number of distinct sender addresses received so far,
\* repeated responses included.
C7_MemberSetIsDistinctSenders ==
    /\ members = {a \in Peers : recvCount[a] > 0}
    /\ Cardinality(members) = Cardinality({a \in Peers : recvCount[a] > 0})

\* two addresses have answered, one of them more than once
C7_RepeatedResponses ==
    /\ Cardinality(members) = 2
    /\ \E a \in Peers : recvCount[a] >= 2

\* main has left stop_ping_thread
DiscoveryEnded == pc["l_main"] \notin {"prompt_ping", "join", "send_done"}

\* C9: when the operator ends discovery the leader sends `Done broadcasting`
\* exactly once to every address of the member set, and the ping loop has
\* stopped before the first of them is sent.
C9_DoneOnceAfterPings ==
    /\ \A a \in Peers :
          /\ doneCount[a] <= 1
          /\ doneCount[a] > 0 => a \in members /\ pc["l_ping"] = "done"
    /\ DiscoveryEnded => \A a \in members : doneCount[a] = 1

\* C10: once the termination flag is set the ping loop stops in the end,
\* whatever keeps arriving on the socket.
C10_PingLoopStops ==
    ping_thread_should_terminate ~> (pc["l_ping"] = "done")

SingleCharCommands == {<<"p">>, <<"n">>, <<"r">>, <<"s">>}

\* what a line of the member's operator does, up to the send and in it
InputSendsToLeaderOnly ==
    /\ (pc["m_input"] = "idle" /\ pc'["m_input"] = "in_send")
          => /\ ~Unbound(leader_addr)
             /\ local'["m_input"].command \in SingleCharCommands
             /\ \E line \in OperatorLines : local'["m_input"].command = Trim(line)
             /\ PlaybackState("M")' = PlaybackState("M")
    /\ (pc["m_input"] = "in_send" /\ pc'["m_input"] = "idle")
          => /\ out' = <<Dgram(MemberAddr, leader_addr, local["m_input"].command)>>
             /\ PlaybackState("M")' = PlaybackState("M")
    /\ (out' # <<>> /\ out'[1].msg # ACK)
          => pc["m_input"] = "in_send" /\ pc'["m_input"] = "idle"

MemberState == <<current_track_index["M"], sink["M"].paused, should_reset["M"]>>

\* C3 as stated: an input p, n, r or s of the member's operator sends that one
\* character to the bound leader and nowhere else and changes no playback
\* state; the track index, the paused flag and the pending-reset flag change
\* only in the handling of a timestamped command or in the watchdog.
C3_OnlyCommandsAndWatchdog ==
    [][/\ InputSendsToLeaderOnly
       /\ MemberState' # MemberState => HandleMode \/ Watchdog("m_watchdog")]_vars

\* C3 amended: as stated, and the progress renderer may clear the
\* pending-reset flag.
C3_OnlyCommandsWatchdogAndRenderer ==
    [][/\ InputSendsToLeaderOnly
       /\ MemberState' # MemberState
             => \/ HandleMode
                \/ Watchdog("m_watchdog")
                \/ /\ Progress("m_progress")
                   /\ should_reset["M"] /\ ~should_reset'["M"]
                   /\ current_track_index' = current_track_index
                   /\ sink' = sink]_vars

\* the operator's `n` has just been sent to the bound leader
C3_InputSent ==
    /\ leader_addr = LeaderAddr
    /\ pc["m_input"] = "idle"
    /\ out = <<Dgram(MemberAddr, LeaderAddr, <<"n">>)>>

\* C5: a node never performs the action of a command before the clock it
\* resolved for the offset has reached the target time; a command whose
\* target time has passed when it is handled gets a zero wait and is
\* executed, not rejected.
C5_NeverBeforeTarget ==
    [][/\ (pc["m_main"] = "sleep" /\ HandleMode)
             => ClockAt("M", local["m_main"].clock, now) >= local["m_main"].time
       /\ (pc["m_main"] = "dispatch" /\ alive'["M"]
             /\ MemberRole(local["m_main"].mode) # "none" /\ HandleMode)
             => /\ pc'["m_main"] = "sleep"
                /\ ClockAt("M", local'["m_main"].clock, now) >= local["m_main"].time
                      => local'["m_main"].wake = now]_vars

\* a toggle has been performed after time has passed
C5_ToggledAtTarget ==
    /\ pc["m_main"] = "cmd_recv"
    /\ ~sink["M"].paused
    /\ now > 0

\* C8: the member sends ACK and binds the sender only for a PING whose id is
\* greater than every id seen before and only while no leader is bound; it
\* sends at most one ACK and its bound leader never changes.
C8_AckOnlyNewerWhileUnbound ==
    [][/\ ackCount' # ackCount
             => /\ Unbound(leader_addr)
                /\ last_received_id' > maxSeen
                /\ last_received_id' = maxSeen'
                /\ \E a \in {LeaderAddr, OtherAddr} :
                      /\ out' = <<Dgram(MemberAddr, a, ACK)>>
                      /\ alive'["M"] => leader_addr' = a
       /\ leader_addr' # leader_addr => ackCount' # ackCount
       /\ (out' # <<>> /\ out'[1].msg = ACK) => ackCount' # ackCount
       /\ ~Unbound(leader_addr) => leader_addr' = leader_addr
       /\ ackCount' <= 1]_vars

\* the member is bound, has seen a ping with the greatest id and has then
\* handled a ping with a smaller one without a second ACK
C8_BoundAndOlderPingIgnored ==
    /\ ackCount = 1
    /\ leader_addr = LeaderAddr
    /\ pc["m_main"] = "disc_recv"
    /\ last_received_id = MaxId
    /\ local["m_main"].buf = PingMessage(1)
    /\ out = <<>>

\* C11: a next command handled while the track index is that of the last
\* track ends the node in that very step: no time passes, the handler never
\* starts its wait, the sink is not commanded to skip, and the sink of the
\* ended node never moves again.
C11_NextAtLastTrackExits ==
    [][/\ (/\ pc["m_main"] = "dispatch"
           /\ MemberRole(local["m_main"].mode) = "n"
           /\ current_track_index["M"] = Len(tracks["M"]) - 1
           /\ HandleMode)
             => /\ ~alive'["M"]
                /\ now' = now
                /\ pc'["m_main"] # "sleep"
                /\ sink' = sink
       /\ ~alive["M"] => ~alive'["M"] /\ sink'["M"] = sink["M"]]_vars

\* the second of two tracks was current when a next command came in before
\* its target time, and the handler has ended the node
C11_ExitedAtLastTrack ==
    /\ ~alive["M"]
    /\ pc["m_main"] = "dispatch"
    /\ MemberRole(local["m_main"].mode) = "n"
    /\ Len(tracks["M"]) = 2
    /\ current_track_index["M"] = 2
    /\ pc["m_watchdog"] \in {"wd_read", "wd_check"}
    /\ now < local["m_main"].time
    /\ sink["M"].cur < 2

\* C12: a next command handled while the track index is below that of the
\* last track adds exactly one to the index in the one step that handles it
\* and touches nothing else; once the clock resolved for the offset shows the
\* target time the handler commands the sink to skip one source and nothing
\* else; its step after that sets pending-reset; the handler changes the
\* index, the sink and pending-reset in no other step.
C12_IncrementThenSkipThenReset ==
    [][/\ (/\ pc["m_main"] = "dispatch"
           /\ MemberRole(local["m_main"].mode) = "n"
           /\ current_track_index["M"] < Len(tracks["M"]) - 1
           /\ HandleMode)
             => /\ current_track_index'["M"] = current_track_index["M"] + 1
                /\ pc'["m_main"] = "sleep"
                /\ alive'["M"]
                /\ sink' = sink /\ should_reset' = should_reset
       /\ (pc["m_main"] = "sleep" /\ local["m_main"].role = "n" /\ HandleMode)
             => /\ ClockAt("M", local["m_main"].clock, now) >= local["m_main"].time
                /\ alive'["M"]
                /\ pc'["m_main"] = "set_reset"
                /\ sink'["M"].cur = IF sink["M"].cur < Len(tracks["M"])
                                    THEN sink["M"].cur + 1 ELSE sink["M"].cur
                /\ sink'["M"].paused = sink["M"].paused
                /\ current_track_index' = current_track_index
                /\ should_reset' = should_reset
       /\ (pc["m_main"] = "set_reset" /\ HandleMode)
             => /\ should_reset'["M"]
                /\ pc'["m_main"] = "cmd_recv"
                /\ sink' = sink /\ current_track_index' = current_track_index
       /\ (should_reset' # should_reset /\ HandleMode) => pc["m_main"] = "set_reset"
       /\ (current_track_index' # current_track_index /\ HandleMode)
             => pc["m_main"] = "dispatch"]_vars

\* a next command has run to its end on a sink that never played: the first
\* of two tracks was skipped, the index is one and pending-reset is set
C12_SkippedThenReset ==
    /\ alive["M"]
    /\ pc["m_main"] = "cmd_recv"
    /\ Len(tracks["M"]) = 2
    /\ current_track_index["M"] = 1
    /\ sink["M"] = [paused |-> TRUE, pos |-> 0, cur |-> 1]
    /\ should_reset["M"]
    /\ now > 0

\* the member's sink exists from the end of its discovery on
SinkMade == pc["m_main"] # "disc_recv"

\* C13: the step that executes a toggle inverts the paused flag of the sink
\* and leaves the sink's queue and position, the track index and
\* pending-reset as they are; nothing but an executed toggle changes the
\* paused flag, so that a second executed toggle restores it.
C13_ToggleInverts ==
    [][/\ (/\ pc["m_main"] = "sleep" /\ local["m_main"].role = "p"
           /\ alive'["M"] /\ HandleMode)
             => /\ sink'["M"].paused = ~sink["M"].paused
                /\ sink'["M"].cur = sink["M"].cur /\ sink'["M"].pos = sink["M"].pos
                /\ current_track_index' = current_track_index
                /\ should_reset' = should_reset
       /\ (SinkMade /\ sink'["M"].paused # sink["M"].paused)
             => /\ pc["m_main"] = "sleep" /\ local["m_main"].role = "p"
                /\ HandleMode]_vars

\* the sink has played and is paused again: two toggles have been executed
C13_ToggledTwice ==
    /\ alive["M"]
    /\ pc["m_main"] = "cmd_recv"
    /\ sink["M"].paused
    /\ sink["M"].pos > 0

\* C14: get_offset returns zero when the target time is not after the time
\* its clock shows, and the target time minus that time otherwise; what it
\* returns is never negative and never beyond the range of the times, for
\* targets up to the top of the range.
C14_OffsetClampedDifference ==
    pc["l_main"] = "fn_done" =>
        LET target_time_ms == local["m_main"].time
            current_time_ms == IF local["m_main"].clock = "ntp" THEN now
                               ELSE now + skew["M"]
            offset == local["m_main"].wake - now
        IN  /\ target_time_ms <= current_time_ms => offset = 0
            /\ target_time_ms > current_time_ms => offset = target_time_ms - current_time_ms
            /\ offset \in 0..U64Top

\* the offset of a target time that the system clock, ahead of true time,
\* shows as passed
C14_PassedTarget ==
    /\ pc["l_main"] = "fn_done"
    /\ local["m_main"].clock = "system"
    /\ local["m_main"].time > now
    /\ local["m_main"].time < now + skew["M"]
    /\ local["m_main"].wake = now

\* C15: the target time of every command the leader takes up, typed by the
\* operator or received by the listener, is 1000 ms after the current time,
\* the true time when the network source answers and the time of the system
\* clock when it fails; with either source the command is taken up in the
\* same step and the thread goes on to handle_command.
C15_TargetIsNowPlusLead ==
    [][\A thr \in CommandThreads :
          (pc[thr] \in {"input", "recv"} /\ pc'[thr] # pc[thr] /\ pc'[thr] # "done")
             => /\ pc'[thr] = "hc_lock"
                /\ alive'["L"]
                /\ \/ local'[thr].time = now + 1000
                   \/ local'[thr].time = (now + skew["L"]) + 1000]_vars

\* a command from a member has been taken up at a moment when the network
\* source failed: its target time is that of the system clock, which is ahead
C15_TargetFromSystemClock ==
    /\ alive["L"]
    /\ pc["l_listener"] = "hc_lock"
    /\ now > 0
    /\ skew["L"] > 0
    /\ local["l_listener"].time = now + skew["L"] + 1000

\* the payloads no loop expects
Malformed == {Garbage, <<":">>, TracksPrefix, PING \o <<",">> \o NotANumber}

\* the step sends nothing, ends neither thread nor process and leaves the
\* member set, the bound leader, the track indexes, the sinks and the
\* pending-reset flags as they are
Dropped(thr) ==
    /\ alive' = alive
    /\ pc'[thr] = pc[thr]
    /\ out' = <<>>
    /\ members' = members
    /\ leader_addr' = leader_addr /\ last_received_id' = last_received_id
    /\ current_track_index' = current_track_index
    /\ sink' = sink
    /\ should_reset' = should_reset

\* C16: a datagram holding `garbage`, `:`, `tracks:` or `PING,notanumber`
\* that the member's discovery loop, the member's command loop or the
\* leader's listener loop receives is dropped: the receiving thread stays at
\* its recv_from, the node lives on, nothing is sent, and membership, leader
\* binding, track index, sink and pending-reset are unchanged.  Stated from
\* the other end: a step that is not such a drop is in none of the three
\* loops the receipt of one of these datagrams.
C16_MalformedDropped ==
    [][/\ ~Dropped("m_main") =>
             \A msg \in Malformed, src \in {LeaderAddr, OtherAddr} :
                /\ ~(DiscoveryLoop /\ MemberDiscoveryOf(Dgram(src, MemberAddr, msg)))
                /\ ~(CommandLoop /\ MemberRecvOf(Dgram(src, MemberAddr, msg)))
       /\ ~Dropped("l_listener") =>
             \A msg \in Malformed, src \in Peers, source \in ClockSources :
                ~(ListenerLoop /\ ListenerRecvOf(Dgram(src, LeaderAddr, msg), source))]_vars

\* the discovery loop has just handled `PING,notanumber` while unbound and
\* is at its recv_from again
C16_BadPingDropped ==
    /\ alive["M"]
    /\ pc["m_main"] = "disc_recv"
    /\ local["m_main"].buf = PING \o <<",">> \o NotANumber
    /\ leader_addr = "none"
    /\ last_received_id = 0

\* C17: a failure of send_to or recv_from other than the read timeout ends
\* no loop: the listener does not leave its loop, the member's discovery and
\* command loops do not return the error, and the fan-out of handle_command
\* does not return it or panic on it.
C17_NetworkErrorsKeepLoopsRunning ==
    [][/\ pc["l_listener"] = "recv" => pc'["l_listener"] # "done"
       /\ pc["m_main"] \in {"disc_recv", "cmd_recv"} => pc'["m_main"] # "failed"
       /\ \A thr \in {"l_main", "l_listener"} :
             pc[thr] = "hc_send" => pc'[thr] \notin {"failed", "panicked"}]_vars

\* a command's sleep until its target time is pending on node n
WaitPending(n) ==
    \E thr \in Threads :
       NodeOf(thr) = n /\ Running(thr) /\ Sleeping(thr) /\ now < local[thr].wake

\* C18: while the sleep of a command is pending on a node, the node's loop
\* that reads inbound datagrams can take its next recv_from: the member's
\* command loop on a member, the listener thread on a leader.
C18_ListenerFreeDuringWait ==
    /\ WaitPending("M") => ENABLED MemberRecv
    /\ WaitPending("L") => ENABLED ListenerRecv

\* the number a code of handle_command is written for
CodeValue(command) ==
    CASE command = <<"0">> -> 0
      [] command = <<"2">> -> 2
      [] command = <<"3">> -> 3
      [] command = <<"4">> -> 4

\* C19: a command formatted as handle_command formats it, `<code> : <t>`,
\* and decoded with extract_mode and extract_timestamp gives the number of
\* the code and the time t again, for the codes 0, 2, 3, 4 and times from 0
\* to the top of the range.
C19_CommandRoundTrip ==
    pc["l_main"] \in {"fn_offset", "fn_done"} =>
        /\ local["m_main"].mode = CodeValue(local["l_main"].command)
        /\ local["m_main"].time = local["l_main"].time

\* the command `4 : <t>` with t the top of the range has been decoded
C19_DecodedTopOfRange ==
    /\ pc["l_main"] = "fn_offset"
    /\ local["l_main"].command = <<"4">>
    /\ local["l_main"].time = U64Top
    /\ local["m_main"].buf = <<"4", " ", ":", " ">> \o ToDec(U64Top)
    /\ local["m_main"].mode = 4
    /\ local["m_main"].time = U64Top

\* the text right of the first ':', whole
AfterFirstColon(input) ==
    LET i == CHOOSE k \in 1..Len(input) :
                 input[k] = ":" /\ \A j \in 1..(k - 1) : input[j] # ":"
    IN  SubSeq(input, i + 1, Len(input))

\* the text has a ':', what is left of the first one is a number once
\* trimmed, and so is everything right of it
BothSidesParse(input) ==
    /\ \E k \in 1..Len(input) : input[k] = ":"
    /\ ParseU64(Trim(Split(input, ":")[1])) # -1
    /\ ParseU64(Trim(AfterFirstColon(input))) # -1

\* C20: the command loop decodes a datagram exactly when the text left of
\* its first ':' and the whole text right of it are numbers once trimmed,
\* and hands these two numbers to handle_mode; any other datagram (no colon,
\* an empty or non-numeric side, text after a second colon) is dropped and
\* changes nothing.
C20_DecodesExactlyWhenBothSidesParse ==
    [][CommandLoop =>
          \A d \in EnvDatagrams(MemberAddr) :
             MemberRecvOf(d) =>
                IF BothSidesParse(d.msg)
                THEN /\ pc'["m_main"] = "dispatch"
                     /\ local'["m_main"].mode = ParseU64(Trim(Split(d.msg, ":")[1]))
                     /\ local'["m_main"].time = ParseU64(Trim(AfterFirstColon(d.msg)))
                ELSE Dropped("m_main") /\ local' = local]_vars

\* C21: the list of names the member takes from the leader's
\* `tracks:<name1>,<name2>,...` datagram is the leader's list: the same
\* names in the same order, as many of them, the empty list included.
C21_TrackListRoundTrip ==
    pc["l_main"] = "fn_names" => local["m_main"].selected_tracks = tracks["L"]

\* C22: the track index of a node is 0 when its playback threads start and
\* no step makes it smaller, whichever of the command handler and the
\* watchdog moves it and however their steps interleave.
C22_IndexStartsAtZeroNeverDecreases ==
    [][/\ \A n \in Nodes : current_track_index'[n] >= current_track_index[n]
       /\ \A thr \in {"l_watchdog", "m_watchdog"} :
             (pc[thr] = "unspawned" /\ pc'[thr] # "unspawned")
                => current_track_index'[NodeOf(thr)] = 0]_vars

\* the handler has moved the index for a next command that still waits for
\* its target time, and the watchdog has moved it once more
C22_BothAdvanced ==
    /\ alive["M"]
    /\ pc["m_main"] = "sleep" /\ local["m_main"].role = "n"
    /\ pc["m_watchdog"] = "wd_reset"
    /\ current_track_index["M"] = 2

\* the step of the watchdog does what the claim says of it: after a position
\* at the end of the track it goes on to the increment, the increment adds
\* one, the next step sets pending-reset, the last one ends the node when the
\* index is past the list; no step of it sends anything
WatchdogSequence(thr) ==
    LET n == NodeOf(thr) IN
    Watchdog(thr) =>
       /\ out' = <<>> /\ net' = net
       /\ (pc[thr] = "wd_check" /\ pc'[thr] # "panicked")
             => pc'[thr] = (IF sink[n].pos >= TrackMs THEN "wd_inc" ELSE "wd_read")
       /\ pc[thr] = "wd_inc"
             => /\ current_track_index'[n] = current_track_index[n] + 1
                /\ pc'[thr] = "wd_reset"
       /\ pc[thr] = "wd_reset" => should_reset'[n] /\ pc'[thr] = "wd_exit"
       /\ (pc[thr] = "wd_exit" /\ current_track_index[n] >= Len(tracks[n]))
             => ~alive'[n]

\* the playback threads of the node have been started
PlaybackStarted(n) ==
    \E thr \in {"l_watchdog", "m_watchdog"} : NodeOf(thr) = n /\ pc[thr] # "unspawned"

\* C23: the watchdog that sees the position at the end of the track moves
\* the index by one, sets pending-reset and ends the node if the index is
\* then past the list, sending nothing; and a running node whose index is
\* past its track list ends.
C23_WatchdogAdvancesExhaustedNodeEnds ==
    /\ [][WatchdogSequence("m_watchdog")]_vars
    /\ (alive["M"] /\ PlaybackStarted("M")
          /\ current_track_index["M"] >= Len(tracks["M"])) ~> ~alive["M"]

\* C24: when the input loop or the listener thread of a running leader is at
\* the lock of the member set in handle_command and the lock is held, the
\* holder releases it in the end: no thread of the leader waits for ever.
C24_MemberSetLockReleased ==
    \A thr \in CommandThreads :
       (alive["L"] /\ pc[thr] = "hc_lock" /\ lock[MembersMutex] # "none")
          ~> (~alive["L"] \/ lock[MembersMutex] = "none")

\* the lists a leader with the same media files can select and send
SelectedLists == {Filter(Media, selected) : selected \in SUBSET SeqRange(Media)}

\* C25: the datagram the member consumes after `Done broadcasting` is a
\* leader's `tracks:` message, and the track list with which the member
\* enters its command loop has the names of that message in their order:
\* every step that consumes the datagram is the receipt of such a message
\* and leaves the member with its list.
C25_ConsumesTheTrackList ==
    [][(TracksWait /\ pc'["m_main"] \notin {"wait_tracks", "failed"})
          => \E names \in SelectedLists, src \in {LeaderAddr, OtherAddr} :
                /\ MemberTracksOf(Dgram(src, MemberAddr, TracksMessage(names)))
                /\ pc'["m_main"] = "cmd_recv"
                /\ tracks'["M"] = names]_vars

\* next commands the node has accepted and whose skip is still to come: the
\* handler has moved the index and waits for the target time
PendingSkips(n) ==
    Cardinality({thr \in CommandThreads \cup {"m_main"} :
                   NodeOf(thr) = n /\ pc[thr] = "sleep" /\ local[thr].role = "n"})

\* C26: the track index of a running node is never ahead of the next
\* commands it has accepted plus the natural ends of track of its sink.  The
\* sources the sink has left behind are the skips executed plus the natural
\* ends that are over, and at most one more end is under way (the source
\* played is at its end and the sink has not gone on yet); so while the sink
\* has a source the index is at most that number, plus the next commands
\* still waiting, plus one: no track boundary is counted twice.
C26_IndexCountsNextsAndEnds ==
    \A n \in Nodes :
       (alive[n] /\ PlaybackStarted(n) /\ sink[n].cur < Len(tracks[n]))
          => current_track_index[n] <= sink[n].cur + PendingSkips(n) + 1

\* C27: no thread of a running node indexes the track list out of range:
\* the index the watchdog has read and is about to use in tracks[track_index]
\* (utils.rs:24), and the index the renderer is about to read and use in
\* tracks[track_index] (player.rs:75-76), are positions of the track list.
C27_IndexAlwaysInRange ==
    \A n \in Nodes :
       alive[n] =>
          /\ \A thr \in {"l_watchdog", "m_watchdog"} :
                (NodeOf(thr) = n /\ pc[thr] = "wd_check")
                   => local[thr].track_index < Len(tracks[n])
          /\ \A thr \in {"l_progress", "m_progress"} :
                (NodeOf(thr) = n /\ pc[thr] = "pr_read")
                   => current_track_index[n] < Len(tracks[n])

\* C28: when discovery ends, the step after which the leader sends
\* `Done broadcasting` to its member set, a member that has sent its ACK to
\* this leader is in the set.
C28_AckedMemberInSetAtEnd ==
    [][(JoinPing /\ leader_addr = LeaderAddr) => MemberAddr \in members]_vars

\* the addresses stop_ping_thread has sent `Done broadcasting` to
DoneSet == {a \in Peers : doneCount[a] > 0}

\* stop_ping_thread is past its join: the discovery phase has ended
JoinedPing == pc["l_main"] \notin {"prompt_ping", "join"}

\* C30: once the discovery phase has ended no step changes the leader's
\* member set, whatever datagram it receives; a fan-out starts from exactly
\* the member set and only drops the addresses it has served; and while the
\* leader runs after stop_ping_thread the member set is the set of addresses
\* `Done broadcasting` was sent to.
C30_MemberSetFrozenAfterDiscovery ==
    [][JoinedPing =>
          /\ members' = members
          /\ \A thr \in Threads :
                todo'[thr] # todo[thr]
                   => (todo'[thr] = members \/ todo'[thr] \subseteq todo[thr])
          /\ (DiscoveryEnded' /\ alive'["L"]) => DoneSet' = members']_vars

\* the listener has taken a command from the network after discovery, at a
\* leader whose member set is the one address that was sent `Done
\* broadcasting`
C30_CommandAfterDiscovery ==
    /\ alive["L"]
    /\ pc["l_listener"] = "hc_lock"
    /\ members = {OtherAddr}
    /\ DoneSet = {OtherAddr}

====
